---- MODULE Spec2Model ----
(***************************************************************************)
(* Model of TileStache/Providers.py: the Proxy and Mapnik providers, the   *)
(* built-in provider lookup and the external provider loader.             *)
(*                                                                         *)
(* Request workers (Threads) call renderArea / renderTile on one shared    *)
(* Proxy instance and one shared Mapnik instance.  Every Python statement  *)
(* that reads or writes the shared Mapnik instance is one step, so that    *)
(* the steps of concurrent calls interleave as they do under threads.      *)
(***************************************************************************)
EXTENDS Integers, Sequences, FiniteSets, TLC

\* ------------------------------------------------------------------ bounds
MaxDim == 2
MaxCalls == 3

\* ------------------------------------------------------- program constants
TileSize == 256
BytesPerPixel == 4

\* Geography.SphericalMercator.srs
MercatorSrs == "+proj=merc +a=6378137 +b=6378137 +lat_ts=0.0 +lon_0=0.0 +x_0=0.0 +y_0=0 +k=1.0 +units=m +nadgrids=@null +no_defs"
LongLatSrs == "+proj=longlat +ellps=WGS84 +datum=WGS84"

\* ------------------------------------------------------------ input sets
Threads == {"t1", "t2"}
SrsValues == {MercatorSrs, LongLatSrs}
\* Mapnik.renderArea never reads its srs argument.
MapnikSrsValues == {LongLatSrs}
\* (width, height) of the Mapnik.renderArea calls
MapnikSizes == {<<1, 2>>, <<2, 1>>}
Extents == {<<0, 0, 1, 1>>, <<1, 0, 2, 1>>}
Coords == {[zoom |-> 0, column |-> 0, row |-> 0], [zoom |-> 1, column |-> 1, row |-> 0]}
AreaDims == 1..MaxDim
TileDims == {MaxDim, TileSize}

None == [kind |-> "None"]
Transparent == [kind |-> "transparent"]

VARIABLES
    styleOK,      \* whether the file at self.mapfile is a loadable Mapnik XML
    maps,         \* the mapnik.Map objects created so far
    self_mapnik,  \* Mapnik.mapnik: 0 is None, else an index into maps
    pc,           \* per thread: the statement it is about to execute
    args,         \* per thread: the arguments of the call in progress
    img,          \* per thread: the local variable img
    mmap,         \* per thread: the local variable mmap (Proxy.renderArea)
    fetched,      \* per thread: the URLs this call has opened
    result,       \* per thread: the returned image or the raised exception
    calls,        \* per operation: number of calls started
    registry,     \* outcome of the last provider lookup
    sys_modules   \* names of the modules the interpreter has imported

vars == <<styleOK, maps, self_mapnik, pc, args, img, mmap, fetched, result,
          calls, registry, sys_modules>>

renderVars == <<styleOK, maps, self_mapnik, pc, args, img, mmap, fetched,
                result, calls>>
registryVars == <<registry, sys_modules>>

\* ---------------------------------------------------------------- helpers
Point(x, y) == [x |-> x, y |-> y]

Raise(msg) == [kind |-> "error", msg |-> msg]
Returned(image) == [kind |-> "image", image |-> image]

\* Geography.SphericalMercator.projLocation: projected point -> location.
projLocation(p) == [lon |-> 3 * p.x - 1, lat |-> 1 - 2 * p.y]

\* ModestMaps.mapByExtent(provider, locationA, locationB, dimensions)
mapByExtent(provider, loc1, loc2, dim) ==
    [kind |-> "Map", provider |-> provider, loc1 |-> loc1, loc2 |-> loc2,
     dimensions |-> dim]

\* ModestMaps Map.draw(): a canvas of the map's dimensions.  Each pixel is
\* identified by the extent it was composed for and its place on the canvas.
draw(m) ==
    [w |-> m.dimensions.x, h |-> m.dimensions.y,
     px |-> [p \in (0..(m.dimensions.x - 1)) \X (0..(m.dimensions.y - 1)) |->
                [of |-> <<m.loc1, m.loc2>>, at |-> p]]]

\* PIL.Image.crop(box): box is (left, upper, right, lower).
crop(im, box) ==
    LET w == box[3] - box[1]
        h == box[4] - box[2]
    IN  [w |-> w, h |-> h,
         px |-> [p \in (0..(w - 1)) \X (0..(h - 1)) |->
                   LET q == <<p[1] + box[1], p[2] + box[2]>>
                   IN  IF q \in DOMAIN im.px THEN im.px[q] ELSE Transparent]]


\* ------------------------------------------------------- engine (mapnik)
\* mapnik.Map(0, 0): a fresh engine object with no style loaded.
NewMap == [width |-> 0, height |-> 0, extent |-> None, loads |-> 0]

\* mapnik.Image(width, height)
NewImage(w, h) == [w |-> w, h |-> h, data |-> None]

\* mapnik.render(map, img): the pass runs with the engine's current state.
render(m, im) == [im EXCEPT !.data = m]

\* mapnik Image.tostring(): the raw RGBA buffer of the image.
tostring(im) == [len |-> im.w * im.h * BytesPerPixel, data |-> im.data]

\* PIL.Image.fromstring('RGBA', (w, h), raw)
fromstring(w, h, raw) ==
    IF raw.len = w * h * BytesPerPixel
    THEN Returned([w |-> w, h |-> h, data |-> raw.data])
    ELSE Raise("ValueError")

\* Faulty variant: the handle is rebuilt on every call.
IsNoneAlways(handle) == handle = handle

IsNone(handle) == handle = 0

\* --------------------------------------------------------------- Init
NoArgs == [op |-> "none"]

Operations == {"Mapnik.renderArea", "Proxy.renderArea", "Proxy.renderTile"}

RECURSIVE Sum(_, _)
Sum(f, S) == IF S = {} THEN 0
             ELSE LET x == CHOOSE y \in S : TRUE IN f[x] + Sum(f, S \ {x})

\* Calls started so far, over all operations.
Started == Sum(calls, Operations)

Init ==
    /\ styleOK \in BOOLEAN
    /\ maps = <<>>
    /\ self_mapnik = 0
    /\ pc = [t \in Threads |-> "idle"]
    /\ args = [t \in Threads |-> NoArgs]
    /\ img = [t \in Threads |-> None]
    /\ mmap = [t \in Threads |-> None]
    /\ fetched = [t \in Threads |-> {}]
    /\ result = [t \in Threads |-> None]
    /\ calls = [op \in Operations |-> 0]
    /\ registry = [op |-> "none"]
    /\ sys_modules = {}

Goto(t, label) == pc' = [pc EXCEPT ![t] = label]

Finish(t, res) ==
    /\ result' = [result EXCEPT ![t] = res]
    /\ Goto(t, "ret")

\* ------------------------------------------------- Mapnik.renderArea
CallMapnikRenderArea(t) ==
    /\ pc[t] = "idle"
    /\ Started < MaxCalls
    /\ \E size \in MapnikSizes, srs \in MapnikSrsValues, e \in Extents :
          args' = [args EXCEPT ![t] =
                     [op |-> "Mapnik.renderArea", width |-> size[1],
                      height |-> size[2], srs |-> srs, extent |-> e]]
    /\ calls' = [calls EXCEPT !["Mapnik.renderArea"] = @ + 1]
    /\ Goto(t, "m151")
    /\ UNCHANGED <<styleOK, maps, self_mapnik, img, mmap, fetched, result>>
    /\ UNCHANGED registryVars

\* line 151: if self.mapnik is None:
MapnikTestNone(t) ==
    /\ pc[t] = "m151"
    /\ Goto(t, IF IsNone(self_mapnik) THEN "m152" ELSE "m155")
    /\ UNCHANGED <<styleOK, maps, self_mapnik, args, img, mmap, fetched,
                   result, calls>>
    /\ UNCHANGED registryVars

\* line 152: self.mapnik = mapnik.Map(0, 0)
MapnikConstruct(t) ==
    /\ pc[t] = "m152"
    /\ maps' = Append(maps, NewMap)
    /\ self_mapnik' = Len(maps) + 1
    /\ Goto(t, "m153")
    /\ UNCHANGED <<styleOK, args, img, mmap, fetched, result, calls>>
    /\ UNCHANGED registryVars

\* line 153: mapnik.load_map(self.mapnik, self.mapfile)
MapnikLoadMap(t) ==
    /\ pc[t] = "m153"
    /\ IF styleOK
       THEN /\ maps' = [maps EXCEPT ![self_mapnik].loads = @ + 1]
            /\ Goto(t, "m155")
            /\ UNCHANGED result
       ELSE /\ Finish(t, Raise("RuntimeError"))
            /\ UNCHANGED maps
    /\ UNCHANGED <<styleOK, self_mapnik, args, img, mmap, fetched, calls>>
    /\ UNCHANGED registryVars

\* line 155: self.mapnik.width = width
MapnikSetWidth(t) ==
    /\ pc[t] = "m155"
    /\ maps' = [maps EXCEPT ![self_mapnik].width = args[t].width]
    /\ Goto(t, "m156")
    /\ UNCHANGED <<styleOK, self_mapnik, args, img, mmap, fetched, result,
                   calls>>
    /\ UNCHANGED registryVars

\* line 156: self.mapnik.height = height
MapnikSetHeight(t) ==
    /\ pc[t] = "m156"
    /\ maps' = [maps EXCEPT ![self_mapnik].height = args[t].height]
    /\ Goto(t, "m157")
    /\ UNCHANGED <<styleOK, self_mapnik, args, img, mmap, fetched, result,
                   calls>>
    /\ UNCHANGED registryVars

\* line 157: self.mapnik.zoom_to_box(mapnik.Envelope(xmin, ymin, xmax, ymax))
MapnikZoomToBox(t) ==
    /\ pc[t] = "m157"
    /\ maps' = [maps EXCEPT ![self_mapnik].extent = args[t].extent]
    /\ Goto(t, "m159")
    /\ UNCHANGED <<styleOK, self_mapnik, args, img, mmap, fetched, result,
                   calls>>
    /\ UNCHANGED registryVars

\* lines 159-160: img = mapnik.Image(width, height)
\*                mapnik.render(self.mapnik, img)
MapnikRender(t) ==
    /\ pc[t] = "m159"
    /\ img' = [img EXCEPT ![t] =
                 render(maps[self_mapnik], NewImage(args[t].width, args[t].height))]
    /\ Goto(t, "m162")
    /\ UNCHANGED <<styleOK, maps, self_mapnik, args, mmap, fetched, result,
                   calls>>
    /\ UNCHANGED registryVars

\* lines 162-164: img = PIL.Image.fromstring('RGBA', (width, height),
\*                                           img.tostring()); return img
MapnikReturn(t) ==
    /\ pc[t] = "m162"
    /\ Finish(t, fromstring(args[t].width, args[t].height, tostring(img[t])))
    /\ UNCHANGED <<styleOK, maps, self_mapnik, args, img, mmap, fetched, calls>>
    /\ UNCHANGED registryVars

\* The caller takes the image or the exception; the call's frame is gone.
Return(t) ==
    /\ pc[t] = "ret"
    /\ Goto(t, "idle")
    /\ args' = [args EXCEPT ![t] = NoArgs]
    /\ img' = [img EXCEPT ![t] = None]
    /\ mmap' = [mmap EXCEPT ![t] = None]
    /\ fetched' = [fetched EXCEPT ![t] = {}]
    /\ result' = [result EXCEPT ![t] = None]
    /\ UNCHANGED <<styleOK, maps, self_mapnik, calls>>
    /\ UNCHANGED registryVars

\* ---------------------------------------------------------------- Proxy
\* Proxy.__init__: self.provider = TemplatedMercatorProvider(url)
self_provider == [kind |-> "TemplatedMercatorProvider", template |-> "http://tile/{Z}/{X}/{Y}.png"]

\* TemplatedMercatorProvider.getTileUrls(coord)[0]
getTileUrl(provider, coord) ==
    [template |-> provider.template, Z |-> coord.zoom, X |-> coord.column,
     Y |-> coord.row]

\* Faulty variant: the comparison inverted.
SrsMismatchInverted(srs) == srs = MercatorSrs

\* lines 91 and 105: srs != Geography.SphericalMercator.srs
SrsMismatch(srs) == srs # MercatorSrs

\* Faulty variant: rejects only when both dimensions are wrong.
TileSizeMismatchBoth(w, h) == w # TileSize /\ h # TileSize

\* line 94: (width, height) != (256, 256)
TileSizeMismatch(w, h) == <<w, h>> # <<TileSize, TileSize>>

\* Faulty variant: one pixel of padding in all, not one on every side.
PaddedDimTight(w, h) == Point(w + 1, h + 1)

\* line 110: dim = Point(width + 2, height + 2)
PaddedDim(w, h) == Point(w + 2, h + 2)

\* Faulty variant of the crop box: the whole canvas, border included.
CropBoxWhole(w, h) == <<0, 0, w + 2, h + 2>>

\* line 117: the box handed to crop()
CropBox(w, h) == <<1, 1, w + 1, h + 1>>

\* Proxy.renderTile(width, height, srs, coord), lines 88-100.  The method
\* touches nothing shared, so the call is one step.  When both checks pass
\* the remote answers with an image, or the fetch/decode fails.
ProxyRenderTile(t) ==
    /\ pc[t] = "idle"
    /\ Started < MaxCalls
    /\ \E w \in TileDims, h \in TileDims, srs \in SrsValues, c \in Coords,
          ok \in BOOLEAN :
          LET url == getTileUrl(self_provider, c)
          IN  /\ args' = [args EXCEPT ![t] =
                           [op |-> "Proxy.renderTile", width |-> w,
                            height |-> h, srs |-> srs, coord |-> c]]
              /\ IF SrsMismatch(srs)
                 THEN /\ Finish(t, Raise("Projection doesn't match EPSG:900913"))
                      /\ UNCHANGED fetched
                 ELSE IF TileSizeMismatch(w, h)
                 THEN /\ Finish(t, Raise("Image dimensions don't match expected tile size"))
                      /\ UNCHANGED fetched
                 ELSE /\ fetched' = [fetched EXCEPT ![t] = @ \cup {url}]
                      /\ Finish(t, IF ok
                                   THEN Returned([mode |-> "RGBA", url |-> url])
                                   ELSE Raise("IOError"))
    /\ calls' = [calls EXCEPT !["Proxy.renderTile"] = @ + 1]
    /\ UNCHANGED <<styleOK, maps, self_mapnik, img, mmap>>
    /\ UNCHANGED registryVars

\* Proxy.renderArea(width, height, srs, xmin, ymin, xmax, ymax), lines
\* 102-119, one step for the same reason.  A tile fetch inside mmap.draw()
\* may fail, and then the call raises.
ProxyRenderArea(t) ==
    /\ pc[t] = "idle"
    /\ Started < MaxCalls
    /\ \E w \in AreaDims, h \in AreaDims, srs \in SrsValues, e \in Extents,
          ok \in BOOLEAN :
          LET dim == PaddedDim(w, h)
              loc1 == projLocation(Point(e[1], e[2]))
              loc2 == projLocation(Point(e[3], e[4]))
              m == mapByExtent(self_provider, loc1, loc2, dim)
              im == crop(draw(m), CropBox(w, h))
          IN  /\ args' = [args EXCEPT ![t] =
                           [op |-> "Proxy.renderArea", width |-> w,
                            height |-> h, srs |-> srs, extent |-> e]]
              /\ IF SrsMismatch(srs)
                 THEN /\ Finish(t, Raise("Bad SRS"))
                      /\ UNCHANGED <<mmap, img>>
                 ELSE /\ mmap' = [mmap EXCEPT ![t] = m]
                      /\ IF ok
                         THEN /\ img' = [img EXCEPT ![t] = im]
                              /\ Finish(t, Returned(im))
                         ELSE /\ Finish(t, Raise("IOError"))
                              /\ UNCHANGED img
    /\ calls' = [calls EXCEPT !["Proxy.renderArea"] = @ + 1]
    /\ UNCHANGED <<styleOK, maps, self_mapnik, fetched>>
    /\ UNCHANGED registryVars

\* ------------------------------------------------------- specifications
Step(t) ==
    \/ MapnikTestNone(t) \/ MapnikConstruct(t) \/ MapnikLoadMap(t)
    \/ MapnikSetWidth(t) \/ MapnikSetHeight(t) \/ MapnikZoomToBox(t)
    \/ MapnikRender(t) \/ MapnikReturn(t)
    \/ Return(t)

Call(t) ==
    \/ CallMapnikRenderArea(t)
    \/ ProxyRenderArea(t)
    \/ ProxyRenderTile(t)

\* Workers call the providers concurrently.
Next == \E t \in Threads : Call(t) \/ Step(t)

Spec == Init /\ [][Next]_vars

\* One call at a time: a call starts only when no other call is in progress.
Quiet == \A u \in Threads : pc[u] = "idle"

NextSeq == \E t \in Threads : (Quiet /\ Call(t)) \/ Step(t)

SpecSeq == Init /\ [][NextSeq]_vars

\* --------------------------------------------------------------- registry
\* Python strings are sequences of one-character strings.
S_mapnik == <<"m", "a", "p", "n", "i", "k">>
S_proxy == <<"p", "r", "o", "x", "y">>
UnknownPrefix == <<"U", "n", "k", "n", "o", "w", "n", " ", "p", "r", "o", "v", "i", "d", "e", "r", " ", "n", "a", "m", "e", ":", " ", "\"">>
Quote == <<"\"">>

ProviderNames ==
    { S_mapnik, S_proxy, <<>>,
      <<" ", "m", "a", "p", "n", "i", "k">>, <<"m", "a", "p", "n", "i", "k", " ">>,
      <<"M", "a", "p", "n", "i", "k">>, <<"P", "R", "O", "X", "Y">>,
      <<"p", "r", "o", "x", "y", " ">>, <<"m", "a", "p">> }

\* classpath[:-1] and classpath[-1]
AllButLast(pieces) == SubSeq(pieces, 1, Len(pieces) - 1)
Last(pieces) == pieces[Len(pieces)]

\* str.strip() for the space character.
RECURSIVE strip(_)
strip(str) ==
    IF str = <<>> THEN str
    ELSE IF Head(str) = " " THEN strip(Tail(str))
    ELSE IF Last(str) = " " THEN strip(AllButLast(str))
    ELSE str

\* Faulty variant: the name is normalised before the lookup.
getProviderByNameStripped(name) ==
    IF strip(name) = S_mapnik THEN [kind |-> "class", name |-> "Mapnik"]
    ELSE IF strip(name) = S_proxy THEN [kind |-> "class", name |-> "Proxy"]
    ELSE Raise(UnknownPrefix \o name \o Quote)

\* getProviderByName(name), lines 166-177
getProviderByName(name) ==
    IF name = S_mapnik THEN [kind |-> "class", name |-> "Mapnik"]
    ELSE IF name = S_proxy THEN [kind |-> "class", name |-> "Proxy"]
    ELSE Raise(UnknownPrefix \o name \o Quote)

\* str.split(sep): the pieces between occurrences of sep, empty ones kept.
RECURSIVE split(_, _)
split(str, sep) ==
    IF \A i \in 1..Len(str) : str[i] # sep
    THEN <<str>>
    ELSE LET k == CHOOSE i \in 1..Len(str) :
                     str[i] = sep /\ \A j \in 1..(i - 1) : str[j] # sep
         IN  <<SubSeq(str, 1, k - 1)>> \o split(SubSeq(str, k + 1, Len(str)), sep)

\* sep.join(pieces)
RECURSIVE join(_, _)
join(sep, pieces) ==
    IF pieces = <<>> THEN <<>>
    ELSE IF Len(pieces) = 1 THEN pieces[1]
    ELSE pieces[1] \o <<sep>> \o join(sep, Tail(pieces))

Class(id) == [kind |-> "class", name |-> id]
Module(name) == [kind |-> "module", name |-> name]

\* The modules the interpreter can find, each with the names its own code
\* binds and the modules its code imports when it runs.
\*   M      a plain module defining C and D
\*   P      a package whose __init__ is empty;   P.S defines C
\*   Q      a package whose __init__ defines C;  Q.S defines another C
\*   R      a package whose __init__ does "from R.S import C"
Disk ==
    (<<"M">> :> [binds |-> (<<"C">> :> Class("M.C")) @@ (<<"D">> :> Class("M.D")),
                 imports |-> {}]) @@
    (<<"P">> :> [binds |-> <<>>, imports |-> {}]) @@
    (<<"P", ".", "S">> :> [binds |-> (<<"C">> :> Class("P.S.C")), imports |-> {}]) @@
    (<<"Q">> :> [binds |-> (<<"C">> :> Class("Q.C")), imports |-> {}]) @@
    (<<"Q", ".", "S">> :> [binds |-> (<<"C">> :> Class("Q.S.C")), imports |-> {}]) @@
    (<<"R">> :> [binds |-> (<<"C">> :> Class("R.S.C")),
                 imports |-> {<<"R", ".", "S">>}]) @@
    (<<"R", ".", "S">> :> [binds |-> (<<"C">> :> Class("R.S.C")), imports |-> {}])

ClassPaths ==
    { <<"M", ".", "C">>, <<"M", ".", "X">>, <<"N", ".", "C">>,
      <<"P", ".", "S", ".", "C">>, <<"Q", ".", "S", ".", "C">>,
      <<"R", ".", "S", ".", "C">>, <<"P", ".", "S">>,
      <<"P", ".", "Z", ".", "C">>, <<"C">>, <<>> }

\* The dotted names leading to a module: "a.b.c" -> a, a.b, a.b.c
Prefixes(name) ==
    LET segs == split(name, ".")
    IN  [k \in 1..Len(segs) |-> join(".", SubSeq(segs, 1, k))]

\* The namespace of a loaded module: what its code binds, and every
\* submodule of it that has been imported.
Namespace(name, loaded) ==
    LET subs == {m \in loaded :
                   /\ Len(m) > Len(name) + 1
                   /\ SubSeq(m, 1, Len(name) + 1) = name \o <<".">>
                   /\ \A i \in (Len(name) + 2)..Len(m) : m[i] # "."}
    IN  [a \in DOMAIN Disk[name].binds \cup
               {SubSeq(m, Len(name) + 2, Len(m)) : m \in subs} |->
            IF a \in DOMAIN Disk[name].binds THEN Disk[name].binds[a]
            ELSE Module(name \o <<".">> \o a)]

\* __import__(name) with no fromlist: imports every package on the way to
\* the named module and returns the TOP-LEVEL package.  Yields the outcome
\* and the modules imported on the way.
import(name, loaded) ==
    IF name = <<>>
    THEN [out |-> Raise("ValueError"), loaded |-> loaded]
    ELSE LET pre == Prefixes(name)
             good == {k \in 1..Len(pre) : \A j \in 1..k : pre[j] \in DOMAIN Disk}
             got == {pre[k] : k \in good}
             now == loaded \cup got \cup UNION {Disk[m].imports : m \in got}
         IN  IF good = 1..Len(pre)
             THEN [out |-> Module(pre[1]), loaded |-> now]
             ELSE [out |-> Raise("ImportError"), loaded |-> now]

\* getattr(module, attr)
getattr(module, attr, loaded) ==
    IF attr \in DOMAIN Namespace(module.name, loaded)
    THEN Namespace(module.name, loaded)[attr]
    ELSE Raise("AttributeError")

\* loadProviderByClass(classpath), lines 179-188
loadProviderByClass(classpath, loaded) ==
    LET pieces == split(classpath, ".")
        module == import(join(".", AllButLast(pieces)), loaded)
    IN  IF module.out.kind = "error"
        THEN module
        ELSE [out |-> getattr(module.out, Last(pieces), module.loaded),
              loaded |-> module.loaded]

GetProviderByName ==
    /\ \E name \in ProviderNames :
          registry' = [op |-> "getProviderByName", arg |-> name,
                       out |-> getProviderByName(name)]
    /\ UNCHANGED sys_modules
    /\ UNCHANGED renderVars

LoadProviderByClass ==
    /\ \E classpath \in ClassPaths :
          LET r == loadProviderByClass(classpath, sys_modules)
          IN  /\ registry' = [op |-> "loadProviderByClass", arg |-> classpath,
                              out |-> r.out]
              /\ sys_modules' = r.loaded
    /\ UNCHANGED renderVars

NextRegistry == GetProviderByName \/ LoadProviderByClass

SpecRegistry == Init /\ [][NextRegistry]_vars

\* ------------------------------------------------------------ properties
InCall(t, op) == args[t].op = op
AtReturn(t, op) == pc[t] = "ret" /\ args[t].op = op
Rendered(t) ==
    /\ InCall(t, "Mapnik.renderArea")
    /\ pc[t] \in {"m162", "ret"}
    /\ img[t] # None
SrsMessages == {"Projection doesn't match EPSG:900913", "Bad SRS"}
SizeMessage == "Image dimensions don't match expected tile size"

\* C1: in every concurrent run, the rasterization pass of each
\* Mapnik.renderArea call runs with the engine width, height and extent
\* that this same call set.
C1_OwnExtentRendered ==
    \A t \in Threads :
        Rendered(t) =>
            /\ img[t].data.width = args[t].width
            /\ img[t].data.height = args[t].height
            /\ img[t].data.extent = args[t].extent

\* C2: with a loadable style and concurrent first calls, the engine handle
\* is constructed at most once, the style is loaded at most once, and no
\* call renders with a handle whose style has not been loaded.
C2_InitialisedOnce ==
    styleOK =>
        /\ Len(maps) <= 1
        /\ \A i \in 1..Len(maps) : maps[i].loads <= 1
        /\ \A t \in Threads : Rendered(t) => img[t].data.loads >= 1

\* C3: once loading the style has failed, every renderArea call on the
\* Mapnik instance ends in an error; none returns an image rendered from a
\* handle whose style was never loaded.
C3_StyleFailureIsFatal ==
    ~styleOK =>
        \A t \in Threads :
            AtReturn(t, "Mapnik.renderArea") => result[t].kind = "error"

\* C4: a renderArea call that succeeds, on the Proxy or the Mapnik
\* provider, returns an image of exactly (width, height).
C4_AreaDimensionsExact ==
    \A t \in Threads :
        /\ pc[t] = "ret"
        /\ args[t].op \in {"Proxy.renderArea", "Mapnik.renderArea"}
        /\ result[t].kind = "image"
        => /\ result[t].image.w = args[t].width
           /\ result[t].image.h = args[t].height
           /\ InCall(t, "Proxy.renderArea") =>
                 DOMAIN result[t].image.px =
                     (0..(args[t].width - 1)) \X (0..(args[t].height - 1))

C4_Witness ==
    \E t \in Threads, u \in Threads :
        /\ AtReturn(t, "Proxy.renderArea") /\ result[t].kind = "image"
        /\ AtReturn(u, "Mapnik.renderArea") /\ result[u].kind = "image"
        /\ args[t].width # args[t].height
        /\ args[u].width # args[u].height

\* C5: Proxy.renderArea asks mapByExtent for a canvas of (width+2, height+2)
\* between the locations of (xmin, ymin) and (xmax, ymax), and the pixel it
\* returns at (i, j) is the canvas pixel at (i+1, j+1); no pixel of the
\* canvas border appears in the result.
C5_CropsOnePixelBorder ==
    \A t \in Threads :
        AtReturn(t, "Proxy.renderArea") /\ result[t].kind = "image" =>
            LET w == args[t].width
                h == args[t].height
                e == args[t].extent
                canvas == draw(mmap[t])
                out == result[t].image
            IN  /\ mmap[t].dimensions = Point(w + 2, h + 2)
                /\ canvas.w = w + 2 /\ canvas.h = h + 2
                /\ mmap[t].loc1 = projLocation(Point(e[1], e[2]))
                /\ mmap[t].loc2 = projLocation(Point(e[3], e[4]))
                /\ \A i \in 0..(w - 1), j \in 0..(h - 1) :
                      out.px[<<i, j>>] = canvas.px[<<i + 1, j + 1>>]
                /\ \A p \in DOMAIN out.px, q \in DOMAIN canvas.px :
                      (q[1] \in {0, w + 1} \/ q[2] \in {0, h + 1})
                          => out.px[p] # canvas.px[q]

C5_Witness ==
    \E t \in Threads :
        /\ AtReturn(t, "Proxy.renderArea") /\ result[t].kind = "image"
        /\ args[t].width = MaxDim /\ args[t].height = 1

\* C6: Proxy.renderTile and Proxy.renderArea called with an srs other than
\* the spherical-mercator one end in an error and produce no image; with
\* the matching srs they are never rejected for their srs.
C6_SrsRejected ==
    \A t \in Threads :
        AtReturn(t, "Proxy.renderTile") \/ AtReturn(t, "Proxy.renderArea") =>
            IF args[t].srs # MercatorSrs
            THEN /\ result[t].kind = "error"
                 /\ result[t].msg \in SrsMessages
                 /\ img[t] = None /\ mmap[t] = None /\ fetched[t] = {}
            ELSE ~(result[t].kind = "error" /\ result[t].msg \in SrsMessages)

C6_Witness ==
    \E t \in Threads, u \in Threads :
        /\ AtReturn(t, "Proxy.renderTile") /\ args[t].srs # MercatorSrs
        /\ args[t].width = TileSize /\ args[t].height = TileSize
        /\ result[t].kind = "error"
        /\ AtReturn(u, "Proxy.renderArea") /\ args[u].srs # MercatorSrs
        /\ result[u].kind = "error"

\* C7: Proxy.renderTile with a size other than (256, 256) ends in an error
\* without opening any URL; Proxy.renderArea is never rejected for its size.
C7_TileSizeRejected ==
    \A t \in Threads :
        /\ AtReturn(t, "Proxy.renderTile")
           /\ <<args[t].width, args[t].height>> # <<256, 256>>
           => result[t].kind = "error" /\ fetched[t] = {}
        /\ AtReturn(t, "Proxy.renderArea") /\ args[t].srs = MercatorSrs
           => result[t].kind = "image" \/ result[t].msg = "IOError"

C7_Witness ==
    \E t \in Threads, u \in Threads :
        /\ AtReturn(t, "Proxy.renderTile") /\ args[t].srs = MercatorSrs
        /\ args[t].width = 256 /\ args[t].height # 256
        /\ result[t] = Raise(SizeMessage)
        /\ AtReturn(u, "Proxy.renderArea") /\ args[u].width # 256
        /\ result[u].kind = "image"

\* str in msg
Contains(msg, str) ==
    \E i \in 0..(Len(msg) - Len(str)) : SubSeq(msg, i + 1, i + Len(str)) = str

\* C8: getProviderByName returns Mapnik for exactly "mapnik" and Proxy for
\* exactly "proxy"; for every other string (the empty one, names with
\* leading or trailing whitespace, names in another letter case) it raises
\* an error whose message carries the requested name.
C8_ExactNameLookup ==
    registry.op = "getProviderByName" =>
        /\ registry.arg = S_mapnik => registry.out = Class("Mapnik")
        /\ registry.arg = S_proxy => registry.out = Class("Proxy")
        /\ registry.arg \notin {S_mapnik, S_proxy} =>
              /\ registry.out.kind = "error"
              /\ Contains(registry.out.msg, Quote \o registry.arg \o Quote)

C8_Witness ==
    /\ registry.op = "getProviderByName"
    /\ registry.arg = <<" ">> \o S_mapnik
    /\ registry.out.kind = "error"

\* C9: loadProviderByClass, given a dotted path of n >= 2 segments, returns
\* the attribute named by the last segment of the module named by the first
\* n-1 segments, and fails when that module cannot be loaded or has no such
\* attribute.
C9_AttributeOfNamedModule ==
    registry.op = "loadProviderByClass"
    /\ Len(split(registry.arg, ".")) >= 2 =>
        LET pieces == split(registry.arg, ".")
            modname == join(".", AllButLast(pieces))
            pre == Prefixes(modname)
        IN  IF /\ \A k \in 1..Len(pre) : pre[k] \in DOMAIN Disk
               /\ Last(pieces) \in DOMAIN Namespace(modname, sys_modules)
            THEN registry.out = Namespace(modname, sys_modules)[Last(pieces)]
            ELSE registry.out.kind = "error"

\* C10: the Mapnik instance holds no engine handle until its first
\* renderArea call; over sequential calls with a loadable style the handle
\* is constructed and the style loaded exactly once; and every call renders
\* with the engine size and extent set to its own arguments.
C10_LazyConstructedOnce ==
    /\ calls["Mapnik.renderArea"] = 0 => self_mapnik = 0 /\ maps = <<>>
    /\ \A t \in Threads :
          /\ styleOK /\ InCall(t, "Mapnik.renderArea")
             /\ pc[t] \in {"m155", "m156", "m157", "m159", "m162", "ret"}
             => Len(maps) = 1 /\ self_mapnik = 1 /\ maps[1].loads = 1
          /\ InCall(t, "Mapnik.renderArea") /\ pc[t] = "m159"
             => /\ maps[self_mapnik].width = args[t].width
                /\ maps[self_mapnik].height = args[t].height
                /\ maps[self_mapnik].extent = args[t].extent
          /\ Rendered(t) => img[t].data = maps[self_mapnik]
    /\ styleOK /\ Quiet /\ calls["Mapnik.renderArea"] > 0
       => Len(maps) = 1 /\ self_mapnik = 1 /\ maps[1].loads = 1

C10_Witness ==
    /\ styleOK
    /\ calls["Mapnik.renderArea"] >= 2
    /\ \E t \in Threads :
          /\ AtReturn(t, "Mapnik.renderArea")
          /\ result[t].kind = "image"
          /\ result[t].image.data.extent = args[t].extent

============================================================================
